---- MODULE Spec2Model ----
(***************************************************************************)
(* A model of rasa/cli/utils.py: the path validator, the config key        *)
(* checker, the argument rewriter and the output path generator.           *)
(*                                                                         *)
(* Every function of the module is called on its own by an outer command   *)
(* handler, so each one gets its own specification: Init draws the         *)
(* function's inputs (and the filesystem / sys.argv / clock it reads) from *)
(* bounded sets, and a single action runs the whole function.              *)
(*                                                                         *)
(* Text is modelled by TLA+ strings; TLC evaluates Len, \o and SubSeq on   *)
(* them, so startswith / endswith / format are computed, not tabulated.    *)
(***************************************************************************)
EXTENDS Integers, Sequences, FiniteSets, TLC

VARIABLES
    pc,             \* "call" before the function runs; then "returned", "exited" or "raised"
    fs,             \* the set of paths for which os.path.exists is true
    trace,          \* what the process has done that is visible outside: prints, exit
    ret,            \* the value handed back to the caller
    current,        \* get_validated_path: argument current
    parameter,      \* get_validated_path: argument parameter
    default,        \* get_validated_path: argument default
    none_is_valid,  \* get_validated_path: argument none_is_valid
    config_data,    \* is_valid_config: the mapping read_yaml_file(path) returned
    mandatory_keys, \* is_valid_config: argument mandatory_keys
    argv,           \* sys.argv
    argv0,          \* sys.argv as it was when the rewriter was entered
    output_path,    \* create_output_path: argument output_path
    prefix,         \* create_output_path: argument prefix
    clock           \* the local time time.strftime reads

vars == <<pc, fs, trace, ret, current, parameter, default, none_is_valid,
          config_data, mandatory_keys, argv, argv0, output_path, prefix, clock>>

pathVars   == <<current, parameter, default, none_is_valid>>
configVars == <<config_data, mandatory_keys>>
argvVars   == <<argv, argv0>>
outputVars == <<output_path, prefix, clock>>

-----------------------------------------------------------------------------
(* Bounds *)

MaxArgs == 4    \* longest sys.argv the rewriter is started with
MaxKeys == 3    \* longest mandatory_keys list

-----------------------------------------------------------------------------
(* Python values *)

None == "<None>"                 \* Python's None, distinct from every text used below
NoReturn == "<no return>"        \* the caller has received nothing (yet, or ever)

\* "{}".format(x): None is rendered as the text None, a text as itself
Format(x) == IF x = None THEN "None" ELSE x

\* truthiness of an Optional[Text]: None and the empty text are false
Truthy(x) == x # None /\ x # ""

\* s.startswith(p)
startswith(s, p) == Len(s) >= Len(p) /\ SubSeq(s, 1, Len(p)) = p

\* s.endswith(p)
endswith(s, p) == Len(s) >= Len(p) /\ SubSeq(s, Len(s) - Len(p) + 1, Len(s)) = p

\* the 1-based position of Python index i (negative indices count from the end)
PyIdx(s, i) == IF i < 0 THEN Len(s) + i + 1 ELSE i + 1

\* os.path.exists(p): a lookup in the filesystem at call time
exists(p) == p \in fs

-----------------------------------------------------------------------------
(* Colored output *)

WARNING == "\\033[93m"
FAIL    == "\\033[91m"
ENDC    == "\\033[0m"

EvPrint(text) == [ev |-> "print", text |-> text, status |-> 0]
EvExit(status) == [ev |-> "exit", text |-> "", status |-> status]

wrap_with_color(text, color) == color \o text \o ENDC

print_color(text, color) == <<EvPrint(wrap_with_color(text, color))>>

print_warning(text) == print_color(text, WARNING)

print_error(text) == print_color(text, FAIL)

-----------------------------------------------------------------------------
(* Path validator *)

PathTexts == {"", "models", "data"}          \* texts passed as current / default
Parameters == {"model", "config"}            \* names passed as parameter
DiskPaths == {"models", "data"}              \* paths that may exist on disk

\* the text cancel_cause_not_found formats
not_found_error(cur, param, dflt) ==
    LET default_clause == IF Truthy(dflt)
                          THEN "use the default location ('" \o Format(dflt) \o "') or "
                          ELSE ""
    IN  "The path '" \o Format(cur) \o "' does not exist. Please make sure to "
        \o default_clause \o "specify it with '--" \o Format(param) \o "'."

\* the text get_validated_path formats when it falls back to the default
not_found_warning(cur, dflt) ==
    "'" \o Format(cur) \o "' not found. Using default location '"
    \o Format(dflt) \o "' instead."

\* mutant: exit() called without a status, so the process ends with status 0
cancel_cause_not_found_exit0(cur, param, dflt) ==
    print_error(not_found_error(cur, param, dflt)) \o <<EvExit(0)>>

\* cancel_cause_not_found: the error line, then exit(1); it never returns
cancel_cause_not_found(cur, param, dflt) ==
    print_error(not_found_error(cur, param, dflt)) \o <<EvExit(1)>>

\* mutant: none_is_valid is tested before the default
validated_path_none_first(cur, param, dflt, niv) ==
    IF cur = None \/ (cur # None /\ ~exists(cur))
    THEN IF niv
         THEN [out |-> <<>>, pc |-> "returned", ret |-> None]
         ELSE IF dflt # None /\ exists(dflt)
         THEN [out |-> print_warning(not_found_warning(cur, dflt)),
               pc |-> "returned", ret |-> dflt]
         ELSE [out |-> cancel_cause_not_found(cur, param, dflt),
               pc |-> "exited", ret |-> NoReturn]
    ELSE [out |-> <<>>, pc |-> "returned", ret |-> cur]

\* mutant: the none_is_valid branch leaves current as it was
validated_path_keeps_current(cur, param, dflt, niv) ==
    IF cur = None \/ (cur # None /\ ~exists(cur))
    THEN IF dflt # None /\ exists(dflt)
         THEN [out |-> print_warning(not_found_warning(cur, dflt)),
               pc |-> "returned", ret |-> dflt]
         ELSE IF niv
         THEN [out |-> <<>>, pc |-> "returned", ret |-> cur]
         ELSE [out |-> cancel_cause_not_found(cur, param, dflt),
               pc |-> "exited", ret |-> NoReturn]
    ELSE [out |-> <<>>, pc |-> "returned", ret |-> cur]

\* mutant: the existence test of current is not negated
validated_path_exists_inverted(cur, param, dflt, niv) ==
    IF cur = None \/ (cur # None /\ exists(cur))
    THEN IF dflt # None /\ exists(dflt)
         THEN [out |-> print_warning(not_found_warning(cur, dflt)),
               pc |-> "returned", ret |-> dflt]
         ELSE IF niv
         THEN [out |-> <<>>, pc |-> "returned", ret |-> None]
         ELSE [out |-> cancel_cause_not_found(cur, param, dflt),
               pc |-> "exited", ret |-> NoReturn]
    ELSE [out |-> <<>>, pc |-> "returned", ret |-> cur]

\* the outcome of get_validated_path: what it did (out), how it ended (pc), what it returned
validated_path(cur, param, dflt, niv) ==
    IF cur = None \/ (cur # None /\ ~exists(cur))
    THEN IF dflt # None /\ exists(dflt)
         THEN [out |-> print_warning(not_found_warning(cur, dflt)),
               pc |-> "returned", ret |-> dflt]
         ELSE IF niv
         THEN [out |-> <<>>, pc |-> "returned", ret |-> None]
         ELSE [out |-> cancel_cause_not_found(cur, param, dflt),
               pc |-> "exited", ret |-> NoReturn]
    ELSE [out |-> <<>>, pc |-> "returned", ret |-> cur]

get_validated_path ==
    /\ pc = "call"
    /\ LET r == validated_path(current, parameter, default, none_is_valid)
       IN  /\ trace' = trace \o r.out
           /\ pc' = r.pc
           /\ ret' = r.ret
    /\ UNCHANGED <<fs, pathVars, configVars, argvVars, outputVars>>

-----------------------------------------------------------------------------
(* Config key checker *)

ConfigKeys == {"language", "pipeline", "policies"}   \* top-level keys of a config file
ConfigValues == {None, "", "x"}          \* null, a non-null empty value, a non-empty value

\* the for loop of is_valid_config from the i-th key on (1-based): False at the
\* first key that is absent or null, True when the list is exhausted
\* mutant: `return True` sits inside the loop, so only the first key is tested
is_valid_config_loop_first_key(data, keys, i) ==
    IF i > Len(keys)
    THEN TRUE
    ELSE ~(keys[i] \notin DOMAIN data \/ data[keys[i]] = None)

RECURSIVE is_valid_config_loop(_, _, _)
is_valid_config_loop(data, keys, i) ==
    IF i > Len(keys)
    THEN TRUE
    ELSE IF keys[i] \notin DOMAIN data \/ data[keys[i]] = None
         THEN FALSE
         ELSE is_valid_config_loop(data, keys, i + 1)

is_valid_config ==
    /\ pc = "call"
    /\ ret' = is_valid_config_loop(config_data, mandatory_keys, 1)
    /\ pc' = "returned"
    /\ UNCHANGED <<fs, trace, pathVars, configVars, argvVars, outputVars>>

-----------------------------------------------------------------------------
(* Argument rewriter *)

Commands == {"run", "test", "shell", "interactive"}
Tokens == {"rasa", "run", "train", "-v", "model"}     \* tokens of a command line
ArgPaths == {"run", "model"}                          \* tokens that may name an existing path

\* whether Python index i is inside list s (otherwise s[i] raises IndexError)
InRange(s, i) == 1 <= PyIdx(s, i) /\ PyIdx(s, i) <= Len(s)

\* mutant: the test of the second-to-last argument is missing
trigger_any_previous(a) ==
    IF ~(Len(a) >= 2) THEN "false"
    ELSE IF ~InRange(a, 1) THEN "IndexError"
    ELSE IF ~(a[PyIdx(a, 1)] \in Commands) THEN "false"
    ELSE IF ~InRange(a, -1) THEN "IndexError"
    ELSE IF ~exists(a[PyIdx(a, -1)]) THEN "false"
    ELSE "true"

\* the `and` chain of the if statement, evaluated left to right with short circuit:
\* "true", "false", or "IndexError" when an index that is evaluated is out of range
trigger(a) ==
    IF ~(Len(a) >= 2) THEN "false"
    ELSE IF ~InRange(a, 1) THEN "IndexError"
    ELSE IF ~(a[PyIdx(a, 1)] \in Commands) THEN "false"
    ELSE IF ~InRange(a, -2) THEN "IndexError"
    ELSE IF startswith(a[PyIdx(a, -2)], "-") THEN "false"
    ELSE IF ~InRange(a, -1) THEN "IndexError"
    ELSE IF ~exists(a[PyIdx(a, -1)]) THEN "false"
    ELSE "true"

\* mutant: after the append the flag is written to the last slot
rewrite_flag_last(a) ==
    LET appended == Append(a, a[PyIdx(a, -1)])
    IN  [appended EXCEPT ![PyIdx(appended, -1)] = "--model"]

\* mutant: the two statements are swapped, the flag is written before the append
rewrite_flag_first(a) ==
    LET flagged == [a EXCEPT ![PyIdx(a, -2)] = "--model"]
    IN  Append(flagged, flagged[PyIdx(flagged, -1)])

\* the body of the if statement: sys.argv.append(sys.argv[-1]); sys.argv[-2] = "--model"
rewrite(a) ==
    LET appended == Append(a, a[PyIdx(a, -1)])
    IN  [appended EXCEPT ![PyIdx(appended, -2)] = "--model"]

parse_last_positional_argument_as_model_path ==
    /\ pc = "call"
    /\ LET t == trigger(argv)
       IN  /\ argv' = IF t = "true" THEN rewrite(argv) ELSE argv
           /\ pc' = IF t = "IndexError" THEN "raised" ELSE "returned"
    /\ ret' = IF pc' = "returned" THEN None ELSE NoReturn
    /\ UNCHANGED <<fs, trace, argv0, pathVars, configVars, outputVars>>

-----------------------------------------------------------------------------
(* Output path generator *)

Stems == {"", "models", "out/model", "a/"}
Suffixes == {"", ".tar.gz", "tar.gz", ".gz", ".tar", "/"}
Prefixes == {"", "nlu-", "/tmp/core-"}
Clocks == { [Y |-> 2019, m |-> 12, d |-> 1, H |-> 10, M |-> 30, S |-> 2],
            [Y |-> 2020, m |-> 1, d |-> 5, H |-> 9, M |-> 5, S |-> 47] }

\* a number as decimal digits, zero-padded to two places (%m %d %H %M %S)
Pad2(n) == IF n < 10 THEN "0" \o ToString(n) ELSE ToString(n)

\* time.strftime("%Y%m%d-%H%M%S") at local time t (years of four digits)
strftime(t) ==
    ToString(t.Y) \o Pad2(t.m) \o Pad2(t.d) \o "-" \o Pad2(t.H) \o Pad2(t.M) \o Pad2(t.S)

\* os.path.join(a, b) on POSIX: an absolute b replaces a; otherwise the two are
\* joined by one "/" unless a is empty or already ends in "/"
join(a, b) ==
    IF startswith(b, "/") THEN b
    ELSE IF a = "" \/ endswith(a, "/") THEN a \o b
    ELSE a \o "/" \o b

output_path_for(path, pre, t) ==
    IF endswith(path, "tar.gz")
    THEN path
    ELSE LET file_name == Format(pre) \o strftime(t) \o ".tar.gz"
         IN  join(path, file_name)

create_output_path ==
    /\ pc = "call"
    /\ ret' = output_path_for(output_path, prefix, clock)
    /\ pc' = "returned"
    /\ UNCHANGED <<fs, trace, pathVars, configVars, argvVars, outputVars>>

-----------------------------------------------------------------------------
(* The inputs of a function that is not the one being run *)

NoPathCall   == current = None /\ parameter = "" /\ default = None /\ none_is_valid = FALSE
NoConfigCall == config_data = <<>> /\ mandatory_keys = <<>>
NoArgvCall   == argv = <<"rasa">> /\ argv0 = <<"rasa">>
NoOutputCall == output_path = "" /\ prefix = "" /\ clock = <<>>

Start == pc = "call" /\ trace = <<>> /\ ret = NoReturn

InitPath ==
    /\ Start
    /\ fs \in SUBSET DiskPaths
    /\ current \in PathTexts \cup {None}
    /\ parameter \in Parameters
    /\ default \in PathTexts \cup {None}
    /\ none_is_valid \in BOOLEAN
    /\ NoConfigCall /\ NoArgvCall /\ NoOutputCall

NextPath == get_validated_path

SpecPath == InitPath /\ [][NextPath]_vars

\* every sequence over S of length lo..hi
SeqsOf(S, lo, hi) == UNION { [1..n -> S] : n \in lo..hi }

InitConfig ==
    /\ Start
    /\ fs = {}
    /\ config_data \in UNION { [D -> ConfigValues] : D \in SUBSET ConfigKeys }
    /\ mandatory_keys \in SeqsOf(ConfigKeys, 0, MaxKeys)
    /\ NoPathCall /\ NoArgvCall /\ NoOutputCall

NextConfig == is_valid_config

SpecConfig == InitConfig /\ [][NextConfig]_vars

InitArgv ==
    /\ Start
    /\ fs \in SUBSET ArgPaths
    /\ argv \in SeqsOf(Tokens, 1, MaxArgs)
    /\ argv0 = argv
    /\ NoPathCall /\ NoConfigCall /\ NoOutputCall

NextArgv == parse_last_positional_argument_as_model_path

SpecArgv == InitArgv /\ [][NextArgv]_vars

InitOutput ==
    /\ Start
    /\ fs = {}
    /\ output_path \in { st \o su : st \in Stems, su \in Suffixes }
    /\ prefix \in Prefixes
    /\ clock \in Clocks
    /\ NoPathCall /\ NoConfigCall /\ NoArgvCall

NextOutput == create_output_path

SpecOutput == InitOutput /\ [][NextOutput]_vars

-----------------------------------------------------------------------------
(* Properties *)

\* text sub occurs somewhere in text s
Contains(s, sub) ==
    \E i \in 1..(Len(s) - Len(sub) + 1) : SubSeq(s, i, i + Len(sub) - 1) = sub

Range(s) == { s[i] : i \in 1..Len(s) }

\* current is unset or does not exist on disk
CurrentMissing == current = None \/ current \notin fs

\* default is set and exists on disk
DefaultUsable == default # None /\ default \in fs

\* the trigger condition of the argument rewriter, as the specification states it,
\* on the argument list the rewriter was entered with
Triggered ==
    /\ Len(argv0) >= 2
    /\ argv0[2] \in {"run", "test", "shell", "interactive"}
    /\ SubSeq(argv0[Len(argv0) - 1], 1, 1) # "-"
    /\ argv0[Len(argv0)] \in fs

\* C1: when current is missing, no default is usable and none_is_valid is false,
\* a line wrapped in the red escape codes is printed first and the process then
\* exits with status 1; nothing else happens and the caller receives no value.
C1_ErrorThenExit ==
    (pc # "call" /\ CurrentMissing /\ ~DefaultUsable /\ ~none_is_valid) =>
        /\ pc = "exited"
        /\ ret = NoReturn
        /\ Len(trace) = 2
        /\ trace[1].ev = "print"
        /\ startswith(trace[1].text, FAIL)
        /\ endswith(trace[1].text, ENDC)
        /\ trace[2].ev = "exit"
        /\ trace[2].status = 1

C1_Witness ==
    /\ pc = "exited"
    /\ current # None /\ current \notin fs
    /\ default # None /\ default # "" /\ default \notin fs
    /\ ~none_is_valid
    /\ Len(trace) = 2

\* C4: when current is missing and default exists, the call returns default and
\* prints exactly one line, in the yellow escape codes, that quotes both current
\* and default; the process does not exit, whatever none_is_valid is.
C4_DefaultWithWarning ==
    (pc # "call" /\ CurrentMissing /\ DefaultUsable) =>
        /\ pc = "returned"
        /\ ret = default
        /\ Len(trace) = 1
        /\ trace[1].ev = "print"
        /\ startswith(trace[1].text, WARNING)
        /\ endswith(trace[1].text, ENDC)
        /\ Contains(trace[1].text, "'" \o Format(current) \o "'")
        /\ Contains(trace[1].text, "'" \o default \o "'")

C4_Witness ==
    /\ pc = "returned"
    /\ current # None /\ current \notin fs
    /\ DefaultUsable
    /\ none_is_valid
    /\ ret = default
    /\ Len(trace) = 1

\* C5: when current is missing, no default is usable and none_is_valid is true,
\* the call returns None, prints nothing and does not exit.
C5_NoneReturned ==
    (pc # "call" /\ CurrentMissing /\ ~DefaultUsable /\ none_is_valid) =>
        /\ pc = "returned"
        /\ ret = None
        /\ trace = <<>>

C5_Witness ==
    /\ pc = "returned"
    /\ current # None /\ current \notin fs
    /\ default # None /\ default \notin fs
    /\ none_is_valid
    /\ ret = None

\* C6: a current that exists on disk is returned unchanged, nothing is printed
\* and the process does not exit, for every default and every none_is_valid.
C6_ExistingReturned ==
    (pc # "call" /\ current # None /\ current \in fs) =>
        /\ pc = "returned"
        /\ ret = current
        /\ trace = <<>>

C6_Witness ==
    /\ pc = "returned"
    /\ current # None /\ current \in fs
    /\ DefaultUsable /\ default # current
    /\ ret = current

\* C8: is_valid_config returns true exactly when every mandatory key is present
\* in the mapping with a non-null value; the right-hand side reads only the set
\* of keys, so the result does not depend on their order.
C8_AllKeysPresent ==
    pc = "returned" =>
        ret = (\A k \in Range(mandatory_keys) :
                  k \in DOMAIN config_data /\ config_data[k] # None)

\* the first key passes with a non-null empty value and a later key fails
C8_Witness ==
    /\ pc = "returned"
    /\ Len(mandatory_keys) >= 2
    /\ mandatory_keys[1] \in DOMAIN config_data
    /\ config_data[mandatory_keys[1]] = ""
    /\ mandatory_keys[Len(mandatory_keys)] \notin DOMAIN config_data
    /\ ret = FALSE

\* C2: when the trigger condition holds, the list grows by one, every element
\* but the last keeps its index, "--model" stands where the last element stood
\* and the last element of the new list is the original last element.
C2_ModelFlagInserted ==
    (pc # "call" /\ Triggered) =>
        /\ pc = "returned"
        /\ Len(argv) = Len(argv0) + 1
        /\ \A i \in 1..(Len(argv0) - 1) : argv[i] = argv0[i]
        /\ argv[Len(argv0)] = "--model"
        /\ argv[Len(argv)] = argv0[Len(argv0)]

C2_Witness ==
    /\ pc = "returned"
    /\ Triggered
    /\ argv0 = <<"rasa", "run", "model">>
    /\ argv = <<"rasa", "run", "--model", "model">>

\* C3: when the trigger condition does not hold, the list is left as it was,
\* nothing is printed and no exception is raised.
C3_NoMatchNoChange ==
    (pc # "call" /\ ~Triggered) =>
        /\ pc = "returned"
        /\ argv = argv0
        /\ trace = <<>>

\* only the test of the second-to-last argument fails
C3_Witness ==
    /\ pc = "returned"
    /\ Len(argv0) >= 3
    /\ argv0[2] \in {"run", "test", "shell", "interactive"}
    /\ SubSeq(argv0[Len(argv0) - 1], 1, 1) = "-"
    /\ argv0[Len(argv0)] \in fs
    /\ argv = argv0

\* C9 as stated: after the append, "--model" is written to the slot that was
\* second-to-last before the append (index len-2), and the original last slot
\* still holds the path.
C9_FlagInOldSecondToLast ==
    (pc # "call" /\ Triggered) =>
        argv = [Append(argv0, argv0[Len(argv0)]) EXCEPT ![Len(argv0) - 1] = "--model"]

\* C9 amended: after the append, "--model" is written to the slot that was last
\* before the append (index len-1, second-to-last after it); the appended slot
\* holds the path and the slot that was second-to-last is not touched.
C9_FlagInOldLast ==
    (pc # "call" /\ Triggered) =>
        argv = [Append(argv0, argv0[Len(argv0)]) EXCEPT ![Len(argv0)] = "--model"]

C9_Witness ==
    /\ pc = "returned"
    /\ Triggered
    /\ Len(argv0) >= 3
    /\ argv[Len(argv0) - 1] = argv0[Len(argv0) - 1]
    /\ argv[Len(argv0)] = "--model"
    /\ argv[Len(argv0) + 1] = argv0[Len(argv0)]

\* C10: after the rewriter has run, the program name (index 0) and the command
\* name (index 1) are what they were before the call.
C10_CommandKept ==
    pc # "call" =>
        /\ argv[1] = argv0[1]
        /\ Len(argv0) >= 2 => (Len(argv) >= 2 /\ argv[2] = argv0[2])

\* C7: output_path is returned unchanged if it ends in ".tar.gz"; in every
\* other case the result is output_path joined with prefix + timestamp +
\* ".tar.gz"; every result ends in ".tar.gz" and is a fixed point of the
\* function under the same clock.
C7_DotTarGzPassthrough ==
    pc = "returned" =>
        /\ ret = IF endswith(output_path, ".tar.gz")
                 THEN output_path
                 ELSE join(output_path, prefix \o strftime(clock) \o ".tar.gz")
        /\ endswith(ret, ".tar.gz")
        /\ output_path_for(ret, prefix, clock) = ret

====
